---- MODULE Spec2Model ----
(***************************************************************************)
(* State-machine model of the FieldPro storage layer (server/storage.ts,   *)
(* class MemStorage) and of the REST handlers that drive it                *)
(* (server/routes.ts).                                                     *)
(*                                                                         *)
(* Time is in milliseconds, counted from the instant the store is          *)
(* constructed.  A JavaScript Map is a function from keys to values: keys  *)
(* are handed out in increasing order and Map.set on an existing key keeps *)
(* its place, so Map iteration order is ascending key order.  A JavaScript *)
(* object is a record; a property that was never set is a field missing    *)
(* from the record's domain.                                               *)
(***************************************************************************)
EXTENDS Integers, Sequences, FiniteSets, TLC

\* ------------------------------------------------------------- bounds
\* Number of entities the create operations may add (randomUUID calls).
MaxUuid == 2
\* The clock advances by at most MaxMs single milliseconds ...
MaxMs == 1
\* ... and by at most MaxDays whole days.
MaxDays == 1
\* Math.round(Math.random() * 1E9) ranges over 0..MaxRandom.
MaxRandom == 0
\* Requests in flight at the same time, in the concurrent specification.
MaxInflight == 2
\* Entities created in the stats scenario: all, and of each kind.
MaxStatsUuid == 8
MaxStatsProjects == 3
MaxStatsPhotos == 5
MaxStatsDocuments == 1

\* Upload requests received in the upload specification.
MaxUploads == 3
\* Entities created in the joined-names specification.
MaxNames == 4
\* ---------------------------------------------------- program constants
\* 1000 * 60 * 60 * 24, the divisor of getNextInspection.
DayMs == 86400000
\* initializeData stores projects proj-1..proj-3 and tests test-1..test-3.
NumSeed == 3

VARIABLES
    projects,        \* MemStorage.projects        : id -> Project
    photos,          \* MemStorage.photos          : id -> Photo
    documents,       \* MemStorage.documents       : id -> Document
    materialTests,   \* MemStorage.materialTests   : id -> MaterialTest
    testResults,     \* MemStorage.testResults     : id -> TestResult
    reminders,       \* MemStorage.reminders       : id -> Reminder
    calendarEvents,  \* MemStorage.calendarEvents  : id -> CalendarEvent
    now,             \* the wall clock read by new Date() / Date.now()
    uuids,           \* how many ids randomUUID() has handed out
    inflight,        \* requests received and not yet handled
    responses        \* the requests of a concurrent run that were answered

store == <<projects, photos, documents, materialTests, testResults,
           reminders, calendarEvents>>
vars == <<projects, photos, documents, materialTests, testResults,
          reminders, calendarEvents, now, uuids, inflight, responses>>

\* ------------------------------------------------- JavaScript helpers
\* obj.k !== undefined
Has(obj, k) == k \in DOMAIN obj

\* { ...a, ...b }: the properties of b override those of a.
Spread(a, b) ==
    [k \in DOMAIN a \cup DOMAIN b |-> IF k \in DOMAIN b THEN b[k] ELSE a[k]]

\* Map.set(k, v)
MapSet(m, k, v) == [x \in DOMAIN m \cup {k} |-> IF x = k THEN v ELSE m[x]]

\* Map.delete(k): the map afterwards (the boolean it returns is Map.has(k)).
MapDelete(m, k) == [x \in DOMAIN m \ {k} |-> m[x]]

\* The keys of a Map in iteration order.
RECURSIVE KeysOf(_)
KeysOf(S) ==
    IF S = {} THEN << >>
    ELSE LET k == CHOOSE x \in S : \A y \in S : x <= y
         IN  <<k>> \o KeysOf(S \ {k})

\* Array.from(map.values())
Values(m) == LET ks == KeysOf(DOMAIN m) IN [i \in 1..Len(ks) |-> m[ks[i]]]

\* Array.prototype.filter is SelectSeq.

\* One step of a stable insertion sort under the comparator
\* (a, b) => sign * (a[k] - b[k]): x goes in front of the first element the
\* comparator puts it strictly before, and so behind every element it ties
\* with.
SortInsert(s, x, k, sign) ==
    LET later == {i \in 1..Len(s) : sign * (x[k] - s[i][k]) < 0}
        at == IF later = {} THEN Len(s) + 1
              ELSE CHOOSE i \in later : \A j \in later : i <= j
    IN  SubSeq(s, 1, at - 1) \o <<x>> \o SubSeq(s, at, Len(s))

\* Array.prototype.sort((a, b) => a[k] - b[k]) for sign = 1 and
\* sort((a, b) => b[k] - a[k]) for sign = -1: stable.
RECURSIVE SortBy(_, _, _)
SortBy(s, k, sign) ==
    IF s = << >> THEN << >>
    ELSE SortInsert(SortBy(SubSeq(s, 1, Len(s) - 1), k, sign),
                    s[Len(s)], k, sign)

\* Math.ceil(a / b) for b > 0 (Math.ceil gives -0 for -1 < a/b <= 0, and
\* -0 === 0).
Ceil(a, b) == 0 - ((0 - a) \div b)

\* crypto.randomUUID(): an id that was never handed out before.
randomUUID == NumSeed + uuids + 1

\* The value of an expression that is undefined (reads only; a stored
\* object simply lacks the property).
Undefined == "undefined"

\* JavaScript truthiness of the boolean property k: !!obj.k
Truthy(obj, k) == Has(obj, k) /\ obj[k] = TRUE

\* An object with no properties: {}
EmptyObj == << >>

\* -------------------------------------------------- storage: projects
\* MemStorage.getProject: the lookup succeeds iff the id is a key.
getProject(ps, id) ==
    IF id \in DOMAIN ps THEN [found |-> TRUE, project |-> ps[id]]
    ELSE [found |-> FALSE, project |-> EmptyObj]

\* createProject letting the caller's properties override the generated
\* ones: { id, createdAt, updatedAt, ...project }.
createProject_CallerId(ps, project) ==
    LET id == randomUUID
        newProject ==
            Spread([id |-> id, createdAt |-> now, updatedAt |-> now], project)
    IN  [ret |-> newProject, projects |-> MapSet(ps, id, newProject)]

\* MemStorage.createProject
createProject(ps, project) ==
    LET id == randomUUID
        newProject ==
            Spread(project, [id |-> id, createdAt |-> now, updatedAt |-> now])
    IN  [ret |-> newProject, projects |-> MapSet(ps, id, newProject)]

\* updateProject without the new updatedAt.
updateProject_NoStamp(ps, id, updates) ==
    IF id \notin DOMAIN ps THEN [found |-> FALSE, projects |-> ps]
    ELSE [found |-> TRUE,
          projects |-> MapSet(ps, id, Spread(ps[id], updates))]

\* updateProject stamping createdAt as well as updatedAt.
updateProject_Restamp(ps, id, updates) ==
    IF id \notin DOMAIN ps THEN [found |-> FALSE, projects |-> ps]
    ELSE LET updatedProject ==
                 Spread(Spread(ps[id], updates),
                        [createdAt |-> now, updatedAt |-> now])
         IN  [found |-> TRUE, projects |-> MapSet(ps, id, updatedProject)]

\* MemStorage.updateProject
updateProject(ps, id, updates) ==
    IF id \notin DOMAIN ps THEN [found |-> FALSE, projects |-> ps]
    ELSE LET updatedProject ==
                 Spread(Spread(ps[id], updates), [updatedAt |-> now])
         IN  [found |-> TRUE, projects |-> MapSet(ps, id, updatedProject)]

\* MemStorage.deleteProject: removes the project and nothing else.
deleteProject(ps, id) ==
    [ret |-> id \in DOMAIN ps, projects |-> MapDelete(ps, id)]

\* ---------------------------------------- storage: photos, documents
\* getProjectPhotos with the comparison turned round: oldest takenAt first.
getProjectPhotos_OldestFirst(projectId) ==
    SortBy(SelectSeq(Values(photos), LAMBDA photo : photo.projectId = projectId),
           "takenAt", 1)

\* MemStorage.getProjectPhotos: newest takenAt first.
getProjectPhotos(projectId) ==
    SortBy(SelectSeq(Values(photos), LAMBDA photo : photo.projectId = projectId),
           "takenAt", -1)

\* MemStorage.createPhoto
createPhoto(phs, photo) ==
    LET id == randomUUID
        newPhoto ==
            Spread(photo,
                   [id |-> id,
                    takenAt |-> IF Has(photo, "takenAt") THEN photo.takenAt
                                ELSE now,
                    createdAt |-> now])
    IN  [ret |-> newPhoto, photos |-> MapSet(phs, id, newPhoto)]

\* MemStorage.deletePhoto
deletePhoto(phs, id) == [ret |-> id \in DOMAIN phs, photos |-> MapDelete(phs, id)]

\* MemStorage.getProjectDocuments: newest uploadedAt first.
getProjectDocuments(projectId) ==
    SortBy(SelectSeq(Values(documents), LAMBDA doc : doc.projectId = projectId),
           "uploadedAt", -1)

\* MemStorage.createDocument
createDocument(ds, document) ==
    LET id == randomUUID
        newDocument == Spread(document, [id |-> id, uploadedAt |-> now])
    IN  [ret |-> newDocument, documents |-> MapSet(ds, id, newDocument)]

\* MemStorage.deleteDocument
deleteDocument(ds, id) ==
    [ret |-> id \in DOMAIN ds, documents |-> MapDelete(ds, id)]

\* ------------------------------- storage: material tests, test results
\* MemStorage.getMaterialTests
getMaterialTests == Values(materialTests)

\* MemStorage.getMaterialTestsByCategory
getMaterialTestsByCategory(category) ==
    SelectSeq(Values(materialTests), LAMBDA test : test.category = category)

\* MemStorage.createMaterialTest
createMaterialTest(ts, test) ==
    LET id == randomUUID
        newTest == Spread(test, [id |-> id, createdAt |-> now, updatedAt |-> now])
    IN  [ret |-> newTest, materialTests |-> MapSet(ts, id, newTest)]

\* MemStorage.createTestResult
createTestResult(rs, result) ==
    LET id == randomUUID
        newResult == Spread(result, [id |-> id, testedAt |-> now])
    IN  [ret |-> newResult, testResults |-> MapSet(rs, id, newResult)]

\* projectNameOf without the placeholder: project?.name || "".
projectNameOf_NoPlaceholder(projectId) ==
    IF projectId \in DOMAIN projects /\ Has(projects[projectId], "name")
    THEN projects[projectId].name ELSE ""

\* project?.name || "Unknown Project": the placeholder also stands in for a
\* name that is falsy (the empty string).
projectNameOf(projectId) ==
    IF projectId \in DOMAIN projects /\ Has(projects[projectId], "name")
       /\ projects[projectId].name # ""
    THEN projects[projectId].name ELSE "Unknown Project"

\* test?.name || "Unknown Test"
testNameOf(materialTestId) ==
    IF materialTestId \in DOMAIN materialTests
       /\ Has(materialTests[materialTestId], "name")
       /\ materialTests[materialTestId].name # ""
    THEN materialTests[materialTestId].name ELSE "Unknown Test"

\* MemStorage.getTestResults
getTestResults ==
    LET rs == Values(testResults)
    IN  [i \in 1..Len(rs) |->
            Spread(rs[i], [projectName |-> projectNameOf(rs[i].projectId),
                           testName |-> testNameOf(rs[i].materialTestId)])]

\* ------------------------------------------------- storage: reminders
\* getActiveReminders without the sort: the rows in stored order.
getActiveReminders_Unsorted ==
    LET active == SelectSeq(Values(reminders),
                            LAMBDA reminder : ~Truthy(reminder, "completed"))
    IN  [i \in 1..Len(active) |->
            Spread(active[i],
                   [projectName |-> projectNameOf(active[i].projectId)])]

\* MemStorage.getActiveReminders
getActiveReminders ==
    LET active == SelectSeq(Values(reminders),
                         LAMBDA reminder : ~Truthy(reminder, "completed"))
        joined == [i \in 1..Len(active) |->
                      Spread(active[i],
                             [projectName |-> projectNameOf(active[i].projectId)])]
    IN  SortBy(joined, "scheduledFor", 1)

\* MemStorage.createReminder
createReminder(rs, reminder) ==
    LET id == randomUUID
        newReminder == Spread(reminder, [id |-> id, createdAt |-> now])
    IN  [ret |-> newReminder, reminders |-> MapSet(rs, id, newReminder)]

\* markReminderComplete with the flag flipped instead of set.
markReminderComplete_Toggle(rs, id) ==
    IF id \notin DOMAIN rs THEN [ret |-> FALSE, reminders |-> rs]
    ELSE [ret |-> TRUE,
          reminders |->
              MapSet(rs, id,
                     Spread(rs[id],
                            [completed |-> ~Truthy(rs[id], "completed")]))]

\* markReminderComplete refusing a reminder that is completed already.
markReminderComplete_Once(rs, id) ==
    IF id \notin DOMAIN rs \/ Truthy(rs[id], "completed")
    THEN [ret |-> FALSE, reminders |-> rs]
    ELSE [ret |-> TRUE,
          reminders |-> MapSet(rs, id, Spread(rs[id], [completed |-> TRUE]))]

\* MemStorage.markReminderComplete
markReminderComplete(rs, id) ==
    IF id \notin DOMAIN rs THEN [ret |-> FALSE, reminders |-> rs]
    ELSE [ret |-> TRUE,
          reminders |-> MapSet(rs, id, Spread(rs[id], [completed |-> TRUE]))]

\* The label getNextInspection renders for a reminder due at `next` when the
\* clock reads t.
inspectionLabel(next, t) ==
    LET diffDays == Ceil(next - t, DayMs)
    IN  IF diffDays = 0 THEN "Today"
        ELSE IF diffDays = 1 THEN "Tomorrow"
        ELSE IF diffDays > 1 THEN ToString(diffDays) \o " days"
        ELSE "Overdue"

\* projectReminders without the sort: the reminders in stored order.
projectReminders_Unsorted(projectId) ==
    SelectSeq(Values(reminders),
           LAMBDA r : r.projectId = projectId /\ ~Truthy(r, "completed"))

\* The filtered, sorted array getNextInspection builds.
projectReminders(projectId) ==
    SortBy(SelectSeq(Values(reminders),
                LAMBDA r : r.projectId = projectId /\ ~Truthy(r, "completed")),
           "scheduledFor", 1)

\* MemStorage.getNextInspection
getNextInspection(projectId) ==
    IF Len(projectReminders(projectId)) > 0
    THEN inspectionLabel(projectReminders(projectId)[1].scheduledFor, now)
    ELSE Undefined

\* getProjects counting every stored photo and document for each project.
getProjects_Unfiltered ==
    LET ps == Values(projects)
    IN  [i \in 1..Len(ps) |->
            Spread(ps[i],
                   [photoCount |-> Len(Values(photos)),
                    documentCount |-> Len(Values(documents)),
                    nextInspection |-> getNextInspection(ps[i].id)])]

\* MemStorage.getProjects
getProjects ==
    LET ps == Values(projects)
    IN  [i \in 1..Len(ps) |->
            Spread(ps[i],
                   [photoCount |->
                        Len(SelectSeq(Values(photos),
                                   LAMBDA p : p.projectId = ps[i].id)),
                    documentCount |->
                        Len(SelectSeq(Values(documents),
                                   LAMBDA d : d.projectId = ps[i].id)),
                    nextInspection |-> getNextInspection(ps[i].id)])]

\* ------------------------------------------- storage: calendar events
\* MemStorage.createCalendarEvent
createCalendarEvent(es, event) ==
    LET id == randomUUID
        newEvent == Spread(event, [id |-> id, createdAt |-> now])
    IN  [ret |-> newEvent, calendarEvents |-> MapSet(es, id, newEvent)]

\* Date.prototype.getMonth and getFullYear in the server's time zone.  The
\* store is taken to be constructed at 00:00 on 31 December 2024, so the
\* instants before DayMs lie in December 2024 (month 11) and the later ones,
\* for 31 days, in January 2025 (month 0).
getMonth(t) == IF t < DayMs THEN 11 ELSE 0

getFullYear(t) == IF t < DayMs THEN 2024 ELSE 2025

\* getCalendarEvents with the filter guarded by truthiness, if (month && year).
getCalendarEvents_Truthy(args) ==
    LET all == Values(calendarEvents)
        events ==
            IF Has(args, "month") /\ Has(args, "year")
               /\ args.month # 0 /\ args.year # 0
            THEN SelectSeq(all,
                           LAMBDA event :
                               /\ getMonth(event.date) = args.month
                               /\ getFullYear(event.date) = args.year)
            ELSE all
    IN  [i \in 1..Len(events) |->
            Spread(events[i],
                   [projectName |-> projectNameOf(events[i].projectId)])]

\* MemStorage.getCalendarEvents(month?, year?).  args holds the arguments
\* that are not undefined, under the names month and year.
getCalendarEvents(args) ==
    LET all == Values(calendarEvents)
        events ==
            IF Has(args, "month") /\ Has(args, "year")
            THEN SelectSeq(all,
                           LAMBDA event :
                               /\ getMonth(event.date) = args.month
                               /\ getFullYear(event.date) = args.year)
            ELSE all
    IN  [i \in 1..Len(events) |->
            Spread(events[i],
                   [projectName |-> projectNameOf(events[i].projectId)])]

\* ----------------------------------------------------- storage: stats
\* getProjectStats counting every project as active.
getProjectStats_AllProjects ==
    [activeProjects |-> Len(Values(projects)),
     photosCount |-> Len(Values(photos)),
     pendingInspections |->
         Len(SelectSeq(Values(reminders), LAMBDA r : ~Truthy(r, "completed"))),
     documentsCount |-> Len(Values(documents))]

\* getProjectStats counting every reminder as pending.
getProjectStats_AllReminders ==
    [activeProjects |->
         Len(SelectSeq(Values(projects),
                    LAMBDA p : Has(p, "status") /\ p.status = "active")),
     photosCount |-> Len(Values(photos)),
     pendingInspections |-> Len(Values(reminders)),
     documentsCount |-> Len(Values(documents))]

\* MemStorage.getProjectStats
getProjectStats ==
    [activeProjects |->
         Len(SelectSeq(Values(projects),
                    LAMBDA p : Has(p, "status") /\ p.status = "active")),
     photosCount |-> Len(Values(photos)),
     pendingInspections |->
         Len(SelectSeq(Values(reminders), LAMBDA r : ~Truthy(r, "completed"))),
     documentsCount |-> Len(Values(documents))]

\* The methods class MemStorage defines.  routes.ts also calls updatePhoto,
\* updateDocument, updateMaterialTest, deleteMaterialTest, updateReminder,
\* deleteReminder, updateCalendarEvent and deleteCalendarEvent: on this store
\* each of those calls throws a TypeError inside the handler's try block.
MemStorageMethods ==
    {"getProjects", "getProject", "createProject", "updateProject",
     "deleteProject", "getProjectPhotos", "createPhoto", "deletePhoto",
     "getProjectDocuments", "createDocument", "deleteDocument",
     "getMaterialTests", "getMaterialTestsByCategory", "createMaterialTest",
     "getTestResults", "createTestResult", "getActiveReminders",
     "createReminder", "markReminderComplete", "getCalendarEvents",
     "createCalendarEvent", "getProjectStats"}

\* ------------------------------------------------------------ schemas
\* zod object parsing: unknown keys are stripped; the parse fails when a
\* required key is missing.  (drizzle-zod makes a column optional when it is
\* nullable or has a default, and supplies no default value itself.)
Parse(body, keys, required) ==
    [ok |-> required \subseteq DOMAIN body,
     data |-> [k \in DOMAIN body \cap keys |-> body[k]]]

\* insertProjectSchema
insertProjectSchema(body) ==
    Parse(body, {"name", "description", "location", "status", "type"},
          {"name", "type"})

\* insertProjectSchema.partial()
insertProjectSchemaPartial(body) ==
    Parse(body, {"name", "description", "location", "status", "type"}, {})

\* insertPhotoSchema
insertPhotoSchema(body) ==
    Parse(body, {"projectId", "filename", "description", "latitude",
                 "longitude", "takenAt"},
          {"projectId", "filename"})

\* insertDocumentSchema
insertDocumentSchema(body) ==
    Parse(body, {"projectId", "filename", "originalName", "type", "size"},
          {"projectId", "filename", "originalName", "type", "size"})

\* insertMaterialTestSchema
insertMaterialTestSchema(body) ==
    Parse(body, {"name", "category", "specification"},
          {"name", "category", "specification"})

\* insertReminderSchema
insertReminderSchema(body) ==
    Parse(body, {"projectId", "title", "type", "scheduledFor", "completed"},
          {"projectId", "title", "type", "scheduledFor"})

\* insertCalendarEventSchema
insertCalendarEventSchema(body) ==
    Parse(body, {"projectId", "title", "description", "date", "type"},
          {"projectId", "title", "date", "type"})

\* ------------------------------------------------------ initial state
\* MemStorage.initializeData, run by the constructor at time 0.  The seeded
\* projects carry creation dates in the past.  The server starts to serve
\* requests after the store was built: the clock then reads a later value.
seedProjects ==
    (1 :> [id |-> 1, name |-> "Downtown Office Complex",
           description |-> "15-story commercial building with underground parking structure",
           location |-> "Downtown LA", status |-> "active", type |-> "building",
           createdAt |-> 0 - DayMs, updatedAt |-> 0]) @@
    (2 :> [id |-> 2, name |-> "Highway Bridge Inspection",
           description |-> "Structural integrity assessment of 200ft span bridge",
           location |-> "I-405 North", status |-> "review",
           type |-> "infrastructure",
           createdAt |-> 0 - 2 * DayMs, updatedAt |-> 0]) @@
    (3 :> [id |-> 3, name |-> "Residential Foundation",
           description |-> "Single-family home foundation inspection and documentation",
           location |-> "Beverly Hills", status |-> "complete",
           type |-> "residential",
           createdAt |-> 0 - 3 * DayMs, updatedAt |-> 0])

seedMaterialTests ==
    (1 :> [id |-> 1, name |-> "Compressive Strength", category |-> "concrete",
           specification |-> "Min 4000 PSI @ 28 days",
           createdAt |-> 0, updatedAt |-> 0]) @@
    (2 :> [id |-> 2, name |-> "Slump Test", category |-> "concrete",
           specification |-> "4in +/- 1in per ACI 318",
           createdAt |-> 0, updatedAt |-> 0]) @@
    (3 :> [id |-> 3, name |-> "Proctor Density", category |-> "soil",
           specification |-> "95% max density, +/-2% moisture",
           createdAt |-> 0, updatedAt |-> 0])

seedReminders ==
    (1 :> [id |-> 1, projectId |-> 1, title |-> "599 Inspection Due",
           type |-> "599", scheduledFor |-> 0 + 24 * 60 * 60 * 1000,
           completed |-> FALSE, createdAt |-> 0])

Init ==
    /\ projects = seedProjects
    /\ photos = EmptyObj
    /\ documents = EmptyObj
    /\ materialTests = seedMaterialTests
    /\ testResults = EmptyObj
    /\ reminders = seedReminders
    /\ calendarEvents = EmptyObj
    /\ now = 1
    /\ uuids = 0
    /\ inflight = {}
    /\ responses = {}

\* ------------------------------------------------------ request inputs
\* An id no entity ever has.
NoSuchId == 0
\* The ids randomUUID has handed out so far.
IssuedUuids == (NumSeed + 1)..(NumSeed + uuids)
\* Path parameters tried against each collection: an id that never existed,
\* a seeded entity where the collection has one, and (for the collections that
\* start empty, and for reminders) every id handed out.
ProjectIds == {NoSuchId, 1}
MaterialTestIds == {NoSuchId, 1}
ReminderIds == {NoSuchId, 1} \cup IssuedUuids
UuidIds == {NoSuchId} \cup IssuedUuids
\* projectId values sent when creating a dependent entity: no project, and
\* the seeded proj-1 and proj-2.
DepProjectIds == {NoSuchId, 1, 2}

\* Request bodies.  The last one of each set fails its schema.
ProjectBodies ==
    {[name |-> "Alpha", type |-> "building", status |-> "active"],
     [name |-> "Gamma", type |-> "infrastructure"],
     [type |-> "building"]}

ProjectUpdates == {[description |-> "x"]}

\* req.file: absent, or the file multer stored.  rnd is the value of
\* Math.round(Math.random() * 1E9) drawn for its name.
NoFile == EmptyObj
Files ==
    {NoFile} \cup {[originalname |-> "site.jpg", size |-> 1024, rnd |-> r] :
                      r \in 0..MaxRandom}

\* req.body of the two multipart upload routes.
UploadForms == {EmptyObj}

\* req.body of a photo upload with and without the two coordinate fields:
\* the client appends each of them when its value is truthy.
CoordForms ==
    {EmptyObj,
     [latitude |-> "34.0500", longitude |-> "-118.25"],
     [latitude |-> "34.0500"],
     [longitude |-> "-118.25"],
     [latitude |-> "", longitude |-> "-118.25"]}

MaterialTestBodies ==
    {[name |-> "Marshall Stability", category |-> "asphalt",
      specification |-> "Min 1800 lbs"],
     [name |-> "No category"]}

\* Offsets from the current clock of the scheduledFor a client sends.
ScheduleOffsets == {0, 1, DayMs + 1}

ReminderBodies ==
    {[projectId |-> 1, title |-> "SW3P walk", type |-> "sw3p",
      scheduledFor |-> now + o] : o \in ScheduleOffsets}
    \cup {[projectId |-> p, title |-> "SW3P walk", type |-> "sw3p",
           scheduledFor |-> now] : p \in DepProjectIds}
    \cup {[projectId |-> 1, title |-> "Preset", type |-> "599",
           scheduledFor |-> now, completed |-> c] : c \in BOOLEAN}
    \cup {[projectId |-> 1, type |-> "599", scheduledFor |-> now]}

CalendarEventBodies ==
    {[projectId |-> p, title |-> "Site visit", date |-> now, type |-> "visit"] :
        p \in DepProjectIds}
    \cup {[projectId |-> 1, title |-> "No date", type |-> "visit"]}

\* Arguments of getCalendarEvents: none, one of the two, or both.
CalendarQueries ==
    {EmptyObj, [month |-> 0], [year |-> 2025]}
    \cup {[month |-> m, year |-> y] : m \in {0, 11}, y \in {2024, 2025}}

\* ------------------------------------------------------------ handlers
\* Each handler is the whole body of one route of registerRoutes: it runs to
\* its response without yielding, because no MemStorage method awaits.  A
\* handler is written as the outcome it computes from the current state: the
\* HTTP status it sends, the number of ids it drew from randomUUID, and the
\* contents of the store when it returns.

Store ==
    [projects |-> projects, photos |-> photos, documents |-> documents,
     materialTests |-> materialTests, testResults |-> testResults,
     reminders |-> reminders, calendarEvents |-> calendarEvents]

\* A response that leaves the store as it is.
Refuse(status) == [status |-> status, uuid |-> 0, ret |-> 0, store |-> Store]

\* null in a JSON payload
Null == "null"

\* POST /api/projects storing the project before it validates the body.
postProject_CommitFirst(body) ==
    LET parsed == insertProjectSchema(body)
        r == createProject(projects, parsed.data)
    IN  [status |-> IF parsed.ok THEN 201 ELSE 400, uuid |-> 1,
         ret |-> r.ret.id,
         store |-> [Store EXCEPT !.projects = r.projects]]

\* app.post("/api/projects")
postProject(body) ==
    LET parsed == insertProjectSchema(body)
        r == createProject(projects, parsed.data)
    IN  IF ~parsed.ok THEN Refuse(400)
        ELSE [status |-> 201, uuid |-> 1, ret |-> r.ret.id,
              store |-> [Store EXCEPT !.projects = r.projects]]

\* The update handler working on the projects as they were when the store was
\* constructed: a read taken before the other requests' writes.
patchProject_Stale(id, body) ==
    LET parsed == insertProjectSchemaPartial(body)
        r == updateProject(seedProjects, id, parsed.data)
    IN  IF ~parsed.ok THEN Refuse(400)
        ELSE IF ~r.found THEN Refuse(404)
        ELSE [status |-> 200, uuid |-> 0, ret |-> id,
              store |-> [Store EXCEPT !.projects = r.projects]]

\* app.patch("/api/projects/:id")
patchProject(id, body) ==
    LET parsed == insertProjectSchemaPartial(body)
        r == updateProject(projects, id, parsed.data)
    IN  IF ~parsed.ok THEN Refuse(400)
        ELSE IF ~r.found THEN Refuse(404)
        ELSE [status |-> 200, uuid |-> 0, ret |-> id,
              store |-> [Store EXCEPT !.projects = r.projects]]

\* app.delete("/api/projects/:id")
delProject(id) ==
    LET r == deleteProject(projects, id)
    IN  IF ~r.ret THEN Refuse(404)
        ELSE [status |-> 204, uuid |-> 0, ret |-> id,
              store |-> [Store EXCEPT !.projects = r.projects]]

\* multer's filename callback: `${Date.now()}-${rnd}-${file.originalname}`
uniqueName(file) == <<now, file.rnd, file.originalname>>

\* multer.diskStorage: req.file of a stored upload carries the name the
\* filename callback chose when the upload began; no file, no req.file.
diskStorage(file) ==
    IF file = NoFile THEN NoFile
    ELSE Spread(file, [filename |-> uniqueName(file)])

\* parseFloat on the texts of the coordinate fields.  A number of a real
\* column is written as its shortest decimal numeral.
parseFloat(text) ==
    CASE text = "34.0500" -> "34.05"
      [] text = "-118.25" -> "-118.25"
      [] text = "0" -> "0"

\* app.post("/api/projects/:projectId/photos")
postPhoto(projectId, file, form) ==
    LET photoData ==
            [projectId |-> projectId,
             filename |-> file.filename,
             description |-> IF Has(form, "description") /\ form.description # ""
                             THEN form.description ELSE "",
             latitude |-> IF Has(form, "latitude") /\ form.latitude # ""
                          THEN parseFloat(form.latitude) ELSE Null,
             longitude |-> IF Has(form, "longitude") /\ form.longitude # ""
                           THEN parseFloat(form.longitude) ELSE Null]
        parsed == insertPhotoSchema(photoData)
        r == createPhoto(photos, parsed.data)
    IN  IF file = NoFile THEN Refuse(400)
        ELSE IF ~parsed.ok THEN Refuse(400)
        ELSE [status |-> 201, uuid |-> 1, ret |-> r.ret.id,
              store |-> [Store EXCEPT !.photos = r.photos]]

\* app.patch("/api/photos/:id"): storage.updatePhoto is not a function, the
\* TypeError is caught and answered with 400.
patchPhoto(id) ==
    IF "updatePhoto" \notin MemStorageMethods THEN Refuse(400) ELSE Refuse(404)

\* app.delete("/api/photos/:id")
delPhoto(id) ==
    LET r == deletePhoto(photos, id)
    IN  IF ~r.ret THEN Refuse(404)
        ELSE [status |-> 204, uuid |-> 0, ret |-> id,
              store |-> [Store EXCEPT !.photos = r.photos]]

\* app.post("/api/projects/:projectId/documents")
postDocument(projectId, file, form) ==
    LET documentData ==
            [projectId |-> projectId,
             filename |-> file.filename,
             originalName |-> file.originalname,
             type |-> IF Has(form, "type") /\ form.type # "" THEN form.type
                      ELSE "other",
             size |-> file.size]
        parsed == insertDocumentSchema(documentData)
        r == createDocument(documents, parsed.data)
    IN  IF file = NoFile THEN Refuse(400)
        ELSE IF ~parsed.ok THEN Refuse(400)
        ELSE [status |-> 201, uuid |-> 1, ret |-> r.ret.id,
              store |-> [Store EXCEPT !.documents = r.documents]]

\* app.patch("/api/documents/:id"): storage.updateDocument is not a function.
patchDocument(id) ==
    IF "updateDocument" \notin MemStorageMethods THEN Refuse(400)
    ELSE Refuse(404)

\* app.delete("/api/documents/:id")
delDocument(id) ==
    LET r == deleteDocument(documents, id)
    IN  IF ~r.ret THEN Refuse(404)
        ELSE [status |-> 204, uuid |-> 0, ret |-> id,
              store |-> [Store EXCEPT !.documents = r.documents]]

\* app.post("/api/material-tests")
postMaterialTest(body) ==
    LET parsed == insertMaterialTestSchema(body)
        r == createMaterialTest(materialTests, parsed.data)
    IN  IF ~parsed.ok THEN Refuse(400)
        ELSE [status |-> 201, uuid |-> 1, ret |-> r.ret.id,
              store |-> [Store EXCEPT !.materialTests = r.materialTests]]

\* app.patch("/api/material-tests/:id"): storage.updateMaterialTest is not a
\* function.
patchMaterialTest(id) ==
    IF "updateMaterialTest" \notin MemStorageMethods THEN Refuse(400)
    ELSE Refuse(404)

\* app.delete("/api/material-tests/:id"): storage.deleteMaterialTest is not a
\* function, the TypeError is caught and answered with 500.
delMaterialTest(id) ==
    IF "deleteMaterialTest" \notin MemStorageMethods THEN Refuse(500)
    ELSE Refuse(404)

\* app.post("/api/reminders")
postReminder(body) ==
    LET parsed == insertReminderSchema(body)
        r == createReminder(reminders, parsed.data)
    IN  IF ~parsed.ok THEN Refuse(400)
        ELSE [status |-> 201, uuid |-> 1, ret |-> r.ret.id,
              store |-> [Store EXCEPT !.reminders = r.reminders]]

\* app.patch("/api/reminders/:id/complete")
completeReminder(id) ==
    LET r == markReminderComplete(reminders, id)
    IN  IF ~r.ret THEN Refuse(404)
        ELSE [status |-> 204, uuid |-> 0, ret |-> id,
              store |-> [Store EXCEPT !.reminders = r.reminders]]

\* app.patch("/api/reminders/:id"): storage.updateReminder is not a function.
patchReminder(id) ==
    IF "updateReminder" \notin MemStorageMethods THEN Refuse(400)
    ELSE Refuse(404)

\* app.delete("/api/reminders/:id"): storage.deleteReminder is not a function.
delReminder(id) ==
    IF "deleteReminder" \notin MemStorageMethods THEN Refuse(500)
    ELSE Refuse(404)

\* app.post("/api/calendar/events")
postCalendarEvent(body) ==
    LET parsed == insertCalendarEventSchema(body)
        r == createCalendarEvent(calendarEvents, parsed.data)
    IN  IF ~parsed.ok THEN Refuse(400)
        ELSE [status |-> 201, uuid |-> 1, ret |-> r.ret.id,
              store |-> [Store EXCEPT !.calendarEvents = r.calendarEvents]]

\* app.patch("/api/calendar/events/:id"): storage.updateCalendarEvent is not
\* a function.
patchCalendarEvent(id) ==
    IF "updateCalendarEvent" \notin MemStorageMethods THEN Refuse(400)
    ELSE Refuse(404)

\* app.delete("/api/calendar/events/:id"): storage.deleteCalendarEvent is not
\* a function.
delCalendarEvent(id) ==
    IF "deleteCalendarEvent" \notin MemStorageMethods THEN Refuse(500)
    ELSE Refuse(404)

\* ------------------------------------------------------------- actions
\* The step a handler takes: the store becomes what the handler left.  The
\* model stops handing out ids after `max` of them.
ApplyWithin(o, max) ==
    /\ uuids + o.uuid <= max
    /\ projects' = o.store.projects
    /\ photos' = o.store.photos
    /\ documents' = o.store.documents
    /\ materialTests' = o.store.materialTests
    /\ testResults' = o.store.testResults
    /\ reminders' = o.store.reminders
    /\ calendarEvents' = o.store.calendarEvents
    /\ uuids' = uuids + o.uuid

Apply(o) == ApplyWithin(o, MaxUuid)

\* Requests served one at a time.
Serial == UNCHANGED <<now, inflight, responses>>

PostProject == \E body \in ProjectBodies : Apply(postProject(body)) /\ Serial
PatchProject ==
    \E id \in ProjectIds, body \in ProjectUpdates :
        Apply(patchProject(id, body)) /\ Serial
DeleteProject == \E id \in ProjectIds : Apply(delProject(id)) /\ Serial
PostPhoto ==
    \E p \in DepProjectIds, file \in Files, form \in UploadForms :
        Apply(postPhoto(p, diskStorage(file), form)) /\ Serial
PatchPhoto == \E id \in UuidIds : Apply(patchPhoto(id)) /\ Serial
DeletePhoto == \E id \in UuidIds : Apply(delPhoto(id)) /\ Serial
PostDocument ==
    \E p \in DepProjectIds, file \in Files, form \in UploadForms :
        Apply(postDocument(p, diskStorage(file), form)) /\ Serial
PatchDocument == \E id \in UuidIds : Apply(patchDocument(id)) /\ Serial
DeleteDocument == \E id \in UuidIds : Apply(delDocument(id)) /\ Serial
PostMaterialTest ==
    \E body \in MaterialTestBodies : Apply(postMaterialTest(body)) /\ Serial
PatchMaterialTest ==
    \E id \in MaterialTestIds : Apply(patchMaterialTest(id)) /\ Serial
DeleteMaterialTest ==
    \E id \in MaterialTestIds : Apply(delMaterialTest(id)) /\ Serial
PostReminder == \E body \in ReminderBodies : Apply(postReminder(body)) /\ Serial
CompleteReminder ==
    \E id \in ReminderIds : Apply(completeReminder(id)) /\ Serial
PatchReminder == \E id \in ReminderIds : Apply(patchReminder(id)) /\ Serial
DeleteReminder == \E id \in ReminderIds : Apply(delReminder(id)) /\ Serial
PostCalendarEvent ==
    \E body \in CalendarEventBodies : Apply(postCalendarEvent(body)) /\ Serial
PatchCalendarEvent == \E id \in UuidIds : Apply(patchCalendarEvent(id)) /\ Serial
DeleteCalendarEvent == \E id \in UuidIds : Apply(delCalendarEvent(id)) /\ Serial

\* Time passes between requests: by one millisecond or by one day.
Tick ==
    /\ \/ /\ now % DayMs <= MaxMs
          /\ now' = now + 1
       \/ /\ now \div DayMs < MaxDays
          /\ now' = now + DayMs
    /\ UNCHANGED <<store, uuids, inflight, responses>>

Next ==
    \/ PostProject
    \/ PatchProject
    \/ DeleteProject
    \/ PostPhoto
    \/ PatchPhoto
    \/ DeletePhoto
    \/ PostDocument
    \/ PatchDocument
    \/ DeleteDocument
    \/ PostMaterialTest
    \/ PatchMaterialTest
    \/ DeleteMaterialTest
    \/ PostReminder
    \/ CompleteReminder
    \/ PatchReminder
    \/ DeleteReminder
    \/ PostCalendarEvent
    \/ PatchCalendarEvent
    \/ DeleteCalendarEvent
    \/ Tick

Spec == Init /\ [][Next]_vars

\* --------------------------------------------------- concurrent requests
\* Express starts a handler for every request that arrives; requests that are
\* in flight together are handled in any order (an upload is handled when
\* multer has stored its file).  Each handler body still runs without
\* yielding.
RaceProject == 2

RaceRequests ==
    {[op |-> "DELETE /api/projects/:id", id |-> RaceProject],
     [op |-> "POST /api/projects/:projectId/photos", id |-> RaceProject],
     [op |-> "POST /api/projects/:projectId/documents", id |-> RaceProject],
     [op |-> "POST /api/reminders", id |-> RaceProject],
     [op |-> "POST /api/calendar/events", id |-> RaceProject]}

CreateOps ==
    {"POST /api/projects/:projectId/photos",
     "POST /api/projects/:projectId/documents",
     "POST /api/reminders", "POST /api/calendar/events"}

RaceFile ==
    diskStorage([originalname |-> "site.jpg", size |-> 1024, rnd |-> 0])

\* The route a request is dispatched to.
Dispatch(req) ==
    CASE req.op = "DELETE /api/projects/:id" -> delProject(req.id)
      [] req.op = "POST /api/projects/:projectId/photos" ->
             postPhoto(req.id, RaceFile, EmptyObj)
      [] req.op = "POST /api/projects/:projectId/documents" ->
             postDocument(req.id, RaceFile, EmptyObj)
      [] req.op = "POST /api/reminders" ->
             postReminder([projectId |-> req.id, title |-> "SW3P walk",
                           type |-> "sw3p", scheduledFor |-> now])
      [] req.op = "POST /api/calendar/events" ->
             postCalendarEvent([projectId |-> req.id, title |-> "Site visit",
                                date |-> now, type |-> "visit"])

Answered == {r.req : r \in responses}

\* A request arrives while others are in flight.
Receive ==
    \E req \in RaceRequests \ (inflight \cup Answered) :
        /\ Cardinality(inflight) < MaxInflight
        /\ inflight' = inflight \cup {req}
        /\ UNCHANGED <<store, now, uuids, responses>>

\* The handler of one of the requests in flight runs.
Serve ==
    \E req \in inflight :
        /\ Apply(Dispatch(req))
        /\ inflight' = inflight \ {req}
        /\ responses' = responses \cup {[req |-> req, status |-> Dispatch(req).status]}
        /\ UNCHANGED now

NextRace == Receive \/ Serve

SpecRace == Init /\ [][NextRace]_vars

\* ------------------------------------------------- the stats scenario
\* Projects, photos and a document are created in a newly constructed store,
\* and its seeded reminder is completed.
StatsProjectBodies ==
    {[name |-> "Alpha", type |-> "building", status |-> "active"],
     [name |-> "Beta", type |-> "residential", status |-> "complete"]}

\* The entities of collection m the constructor did not seed.
Created(m) == {id \in DOMAIN m : id > NumSeed}

StatsPostProject ==
    \E body \in StatsProjectBodies :
        /\ Cardinality(Created(projects)) < MaxStatsProjects
        /\ ApplyWithin(postProject(body), MaxStatsUuid)
        /\ Serial

StatsPostPhoto ==
    \E p \in {1, NumSeed + 1} :
        /\ Cardinality(Created(photos)) < MaxStatsPhotos
        /\ ApplyWithin(postPhoto(p, RaceFile, EmptyObj), MaxStatsUuid)
        /\ Serial

StatsPostDocument ==
    /\ Cardinality(Created(documents)) < MaxStatsDocuments
    /\ ApplyWithin(postDocument(1, RaceFile, EmptyObj), MaxStatsUuid)
    /\ Serial

StatsCompleteReminder ==
    ApplyWithin(completeReminder(1), MaxStatsUuid) /\ Serial

NextStats ==
    \/ StatsPostProject
    \/ StatsPostPhoto
    \/ StatsPostDocument
    \/ StatsCompleteReminder

SpecStats == Init /\ [][NextStats]_vars

\* ------------------------------------------------- the read-side joins
\* No route creates a test result: createTestResult is called on the exported
\* store directly.  The reads are joined over what such calls, the reminder
\* and calendar routes and a project delete leave.
TestResultInputs ==
    {[projectId |-> p, materialTestId |-> t, result |-> "4200 PSI",
      status |-> "pass"] : p \in {NoSuchId, 1}, t \in {NoSuchId, 1}}

CreateTestResult ==
    \E result \in TestResultInputs :
        /\ Apply([status |-> 201, uuid |-> 1, ret |-> randomUUID,
                  store |-> [Store EXCEPT
                                !.testResults =
                                    createTestResult(testResults,
                                                     result).testResults]])
        /\ Serial

NextJoins ==
    \/ CreateTestResult
    \/ PostReminder
    \/ PostCalendarEvent
    \/ DeleteProject
    \/ Tick

SpecJoins == Init /\ [][NextJoins]_vars

\* ------------------------------------------------------- the two uploads
\* upload.single(...) runs before the route's handler: multer streams the
\* file part to the upload directory under the name its filename callback
\* chose, and calls the handler once the write has finished; when the write
\* fails it removes the partial file and passes the error on, so the handler
\* never runs and express answers 500.  A request without a file part
\* reaches the handler with no req.file.
UploadRoutes ==
    {"POST /api/projects/:projectId/photos",
     "POST /api/projects/:projectId/documents"}

\* The upload requests received so far.
Uploads == inflight \cup {r.req : r \in responses}

\* An upload request arrives and multer begins to write its file.
ReceiveUpload ==
    \E op \in UploadRoutes, file \in Files :
        /\ Cardinality(Uploads) < MaxUploads
        /\ inflight' = inflight \cup
               {[n |-> Cardinality(Uploads) + 1, op |-> op,
                 file |-> diskStorage(file),
                 phase |-> IF file = NoFile THEN "done" ELSE "writing"]}
        /\ UNCHANGED <<store, now, uuids, responses>>

\* The write of an upload's file finishes.
FinishWrite ==
    \E req \in inflight :
        /\ req.phase = "writing"
        /\ inflight' = (inflight \ {req}) \cup {[req EXCEPT !.phase = "done"]}
        /\ UNCHANGED <<store, now, uuids, responses>>

\* The write of an upload's file fails: the handler is skipped.
FailWrite ==
    \E req \in inflight :
        /\ req.phase = "writing"
        /\ inflight' = inflight \ {req}
        /\ responses' = responses \cup {[req |-> req, status |-> 500]}
        /\ UNCHANGED <<store, now, uuids>>

\* The handler of the upload route req was sent to.
uploadHandler(req) ==
    IF req.op = "POST /api/projects/:projectId/photos"
    THEN postPhoto(1, req.file, EmptyObj)
    ELSE postDocument(1, req.file, EmptyObj)

\* The handler of upload req runs and answers.
Handle(req) ==
    /\ ApplyWithin(uploadHandler(req), MaxUploads)
    /\ inflight' = inflight \ {req}
    /\ responses' = responses \cup
           {[req |-> req, status |-> uploadHandler(req).status]}
    /\ UNCHANGED now

\* The handler run as soon as the request arrived, whatever multer did.
ServeUpload_Eager == \E req \in inflight : Handle(req)

\* The handler runs after multer is done with the request.
ServeUpload == \E req \in inflight : req.phase = "done" /\ Handle(req)

NextUpload == ReceiveUpload \/ FinishWrite \/ FailWrite \/ ServeUpload \/ Tick

SpecUpload == Init /\ [][NextUpload]_vars

\* ---------------------------------------------------- concurrent updates
\* PATCH /api/projects/:id requests overlapping in time.  The handler parses
\* the body and calls storage.updateProject, whose body has no await: the
\* read of the project, the spread and the write happen in one turn of the
\* event loop.
PatchedProjects == {1, 2}

PatchBodies == {[description |-> "x"], [location |-> "y"]}

PatchRequests ==
    {[op |-> "PATCH /api/projects/:id", id |-> i, body |-> b] :
        i \in PatchedProjects, b \in PatchBodies}

\* An update request arrives while others are in flight.
ReceivePatch ==
    \E req \in PatchRequests \ (inflight \cup Answered) :
        /\ Cardinality(inflight) < MaxInflight
        /\ inflight' = inflight \cup {req}
        /\ UNCHANGED <<store, now, uuids, responses>>

\* The handler of one of the update requests in flight runs.
ServePatch ==
    \E req \in inflight :
        /\ Apply(patchProject(req.id, req.body))
        /\ inflight' = inflight \ {req}
        /\ responses' = responses \cup
               {[req |-> req, status |-> patchProject(req.id, req.body).status]}
        /\ UNCHANGED now

NextPatch == ReceivePatch \/ ServePatch \/ Tick

SpecPatch == Init /\ [][NextPatch]_vars

\* ------------------------------------------------------ the joined names
\* Projects and material tests are created under names the insert schemas
\* accept (name is a z.string(): any string, the empty one included), and
\* reminders, calendar events and test results that reference them.
NamedProjectBodies ==
    {[name |-> n, type |-> "building", status |-> "active"] : n \in {"", "Delta"}}

NamedTestBodies ==
    {[name |-> n, category |-> "soil", specification |-> "95% max density"] :
        n \in {"", "Sieve Analysis"}}

\* The projects and material tests a new entity may reference.
NamedProjects == Created(projects) \cup {1, NoSuchId}
NamedTests == Created(materialTests) \cup {1, NoSuchId}

PostNamedProject ==
    \E body \in NamedProjectBodies :
        ApplyWithin(postProject(body), MaxNames) /\ Serial

PostNamedTest ==
    \E body \in NamedTestBodies :
        ApplyWithin(postMaterialTest(body), MaxNames) /\ Serial

PostReminderFor ==
    \E p \in NamedProjects :
        /\ ApplyWithin(postReminder([projectId |-> p, title |-> "SW3P walk",
                                     type |-> "sw3p", scheduledFor |-> now]),
                       MaxNames)
        /\ Serial

PostCalendarEventFor ==
    \E p \in NamedProjects :
        /\ ApplyWithin(postCalendarEvent([projectId |-> p, title |-> "Site visit",
                                          date |-> now, type |-> "visit"]),
                       MaxNames)
        /\ Serial

CreateTestResultFor ==
    \E p \in NamedProjects, t \in NamedTests :
        /\ ApplyWithin([status |-> 201, uuid |-> 1, ret |-> randomUUID,
                        store |-> [Store EXCEPT
                            !.testResults =
                                createTestResult(testResults,
                                    [projectId |-> p, materialTestId |-> t,
                                     result |-> "4200 PSI",
                                     status |-> "pass"]).testResults]],
                       MaxNames)
        /\ Serial

NextNames ==
    \/ PostNamedProject
    \/ PostNamedTest
    \/ PostReminderFor
    \/ PostCalendarEventFor
    \/ CreateTestResultFor

SpecNames == Init /\ [][NextNames]_vars

\* =============================================================== claims
\* The ids of the entities of collection m that reference project P.
ReferencesProject(m, P) == {id \in DOMAIN m : m[id].projectId = P}

\* No dependent entity of store st references project P.
NoDependents(st, P) ==
    /\ ReferencesProject(st.photos, P) = {}
    /\ ReferencesProject(st.documents, P) = {}
    /\ ReferencesProject(st.testResults, P) = {}
    /\ ReferencesProject(st.reminders, P) = {}
    /\ ReferencesProject(st.calendarEvents, P) = {}

\* A request was refused and left the store as it was.
Rejected(o) == o.status >= 400 /\ o.store = Store

\* C1 -- Cascade completeness: for every existing project P, after a delete
\* of P that reports success (204) no stored photo, document, test result,
\* reminder or calendar event has projectId = P, and getProject(P) finds
\* nothing.
C1_CascadeCompleteness ==
    \A P \in DOMAIN projects :
        LET o == delProject(P)
        IN  o.status = 204 =>
                /\ NoDependents(o.store, P)
                /\ ~getProject(o.store.projects, P).found

\* C2 -- Referential rejection: creating a photo, document, reminder or
\* calendar event (through its route) or a test result (through the store)
\* under a projectId that names no stored project is rejected and adds no
\* entity to the store.
C2_ReferentialRejection ==
    \A P \in DepProjectIds \ DOMAIN projects :
        /\ Rejected(postPhoto(P, RaceFile, EmptyObj))
        /\ Rejected(postDocument(P, RaceFile, EmptyObj))
        /\ Rejected(postReminder([projectId |-> P, title |-> "SW3P walk",
                                  type |-> "sw3p", scheduledFor |-> now]))
        /\ Rejected(postCalendarEvent([projectId |-> P, title |-> "Site visit",
                                       date |-> now, type |-> "visit"]))
        /\ createTestResult(testResults,
                            [projectId |-> P, materialTestId |-> 1,
                             result |-> "pass"]).testResults = testResults

\* C3 -- Delete racing a create: once a successful delete of project P and a
\* create of a dependent entity under P, received while the other was in
\* flight or not, have both been answered and nothing is in flight, no
\* dependent entity referencing P is left in the store.
C3_NoOrphanAfterRace ==
    \A d \in responses, c \in responses :
        ( /\ d.req.op = "DELETE /api/projects/:id"
          /\ d.status = 204
          /\ c.req.op \in CreateOps
          /\ c.req.id = d.req.id
          /\ inflight = {} )
        => NoDependents(Store, d.req.id)

\* C4 -- Reminder.completed is monotonic: in every step of every behaviour, a
\* reminder that is completed before the step and still stored after it is
\* completed after it, whichever request the step serves.
C4_CompletedMonotonic ==
    [][\A id \in DOMAIN reminders \cap DOMAIN reminders' :
           Truthy(reminders[id], "completed")
               => Truthy(reminders'[id], "completed")]_vars

\* The seeded reminder, created not completed, is completed, and requests
\* that create entities were served besides.
C4_Witness ==
    /\ 1 \in DOMAIN reminders
    /\ Truthy(reminders[1], "completed")
    /\ uuids = MaxUuid

\* C5 -- Idempotent completion: for every stored reminder,
\* markReminderComplete(id) called twice in a row returns true both times,
\* the reminder is completed after each call, and the second call leaves the
\* reminders as the first left them; the route answers 204 (success) to each.
C5_IdempotentCompletion ==
    \A id \in DOMAIN reminders :
        LET first == markReminderComplete(reminders, id)
            second == markReminderComplete(first.reminders, id)
        IN  /\ first.ret /\ second.ret
            /\ first.reminders[id].completed = TRUE
            /\ second.reminders[id].completed = TRUE
            /\ second.reminders = first.reminders
            /\ completeReminder(id).status = 204
            /\ completeReminder(id).store.reminders = first.reminders

\* A created reminder was completed by a first call: the second call meets a
\* reminder that is completed already.
C5_Witness ==
    \E id \in Created(reminders) :
        /\ Truthy(reminders[id], "completed")
        /\ markReminderComplete(reminders, id).ret
        /\ markReminderComplete(reminders, id).reminders = reminders

\* C6 -- Derived counts: for every project P that getProjects returns,
\* P.photoCount is the length of getProjectPhotos(P.id) and P.documentCount
\* the length of getProjectDocuments(P.id).
C6_DerivedCounts ==
    \A i \in 1..Len(getProjects) :
        /\ getProjects[i].photoCount = Len(getProjectPhotos(getProjects[i].id))
        /\ getProjects[i].documentCount
               = Len(getProjectDocuments(getProjects[i].id))

\* A listed project has a photo and a document while another listed project
\* has neither.
C6_Witness ==
    \E i, j \in 1..Len(getProjects) :
        /\ getProjects[i].photoCount = 1
        /\ getProjects[i].documentCount = 1
        /\ getProjects[j].photoCount = 0
        /\ getProjects[j].documentCount = 0

\* The project id of store ps after updateProject(id, {description: "x"}) and
\* getProject(id); strict tells whether updatedAt must have grown.
RoundTrip(ps, id, strict) ==
    LET updated == updateProject(ps, id, [description |-> "x"])
        got == getProject(updated.projects, id)
    IN  /\ updated.found
        /\ got.found
        /\ got.project.description = "x"
        /\ DOMAIN got.project = DOMAIN ps[id] \cup {"description"}
        /\ \A k \in DOMAIN ps[id] \ {"description", "updatedAt"} :
               got.project[k] = ps[id][k]
        /\ IF strict THEN got.project.updatedAt > ps[id].updatedAt
           ELSE /\ got.project.updatedAt >= ps[id].updatedAt
                /\ got.project.updatedAt = now

\* C7 as stated -- Round-trip update: for every stored project,
\* updateProject(id, {description: x}) followed by getProject(id) returns the
\* project with description x, every other field but updatedAt unchanged, and
\* updatedAt strictly greater than before.
C7_RoundTripStrict ==
    \A id \in DOMAIN projects : RoundTrip(projects, id, TRUE)

\* C7 amended -- as above, but updatedAt is the clock value at the update,
\* which is greater than or equal to the value before: an update in the
\* millisecond of the previous write leaves updatedAt as it was.
C7_RoundTrip ==
    \A id \in DOMAIN projects : RoundTrip(projects, id, FALSE)

\* A project written in the current millisecond (its description set by an
\* update) is updated again.
C7_Witness ==
    \E id \in DOMAIN projects :
        /\ projects[id].updatedAt = now
        /\ Has(projects[id], "description")
        /\ projects[id].description = "x"
        /\ RoundTrip(projects, id, FALSE)
        /\ ~RoundTrip(projects, id, TRUE)

\* The four counts of getProjectStats, each against the stored collection.
\* A reminder counts as pending when its completed flag is not true: false,
\* or left out by the request that created it.
StatsMatchStore ==
    /\ getProjectStats.activeProjects
           = Cardinality({id \in DOMAIN projects :
                             /\ Has(projects[id], "status")
                             /\ projects[id].status = "active"})
    /\ getProjectStats.photosCount = Cardinality(DOMAIN photos)
    /\ getProjectStats.pendingInspections
           = Cardinality({id \in DOMAIN reminders :
                             ~Truthy(reminders[id], "completed")})
    /\ getProjectStats.documentsCount = Cardinality(DOMAIN documents)

\* Since the store was constructed, exactly two active projects, one complete
\* project and five photos were created, and nothing else.
StatsScenario ==
    /\ Cardinality(Created(projects)) = 3
    /\ Cardinality({id \in Created(projects) :
                       projects[id].status = "active"}) = 2
    /\ Cardinality({id \in Created(projects) :
                       projects[id].status = "complete"}) = 1
    /\ Cardinality(Created(photos)) = 5
    /\ Created(documents) = {}
    /\ Created(reminders) = {}

\* C8 as stated -- Stats correctness: getProjectStats returns the number of
\* stored projects with status "active", of stored photos, of stored
\* reminders not completed and of stored documents; after creating 2 active
\* and 1 complete project and 5 photos in a newly constructed store,
\* activeProjects = 2 and photosCount = 5.
C8_StatsAsStated ==
    /\ StatsMatchStore
    /\ StatsScenario =>
           /\ getProjectStats.activeProjects = 2
           /\ getProjectStats.photosCount = 5

\* C8 amended -- the four counts are as stated; a newly constructed store
\* holds three seeded projects, one of them active, so after creating 2
\* active and 1 complete project and 5 photos in it, activeProjects = 3 and
\* photosCount = 5.
C8_Stats ==
    /\ StatsMatchStore
    /\ StatsScenario =>
           /\ getProjectStats.activeProjects = 3
           /\ getProjectStats.photosCount = 5

\* The scenario was played, and the stats were computed in the state it
\* leaves.
C8_Witness ==
    /\ StatsScenario
    /\ getProjectStats.activeProjects = 3
    /\ getProjectStats.photosCount = 5

\* The reminders of project P that are not completed (completed false, or
\* left out on creation).
Candidates(P) ==
    {id \in DOMAIN reminders :
        reminders[id].projectId = P /\ ~Truthy(reminders[id], "completed")}

\* C9 -- nextInspection selection: for every project, the reminder
\* nextInspection is computed from is one of that project's reminders that
\* are not completed, and none of those is scheduled earlier; the label is
\* the one rendered for its scheduledFor; when the project has no such
\* reminder, nextInspection is undefined and nothing is raised.  The project
\* list carries that value for each project.
C9_NextInspectionSelection ==
    /\ \A P \in DOMAIN projects \cup DepProjectIds :
           IF Candidates(P) = {}
           THEN /\ projectReminders(P) = << >>
                /\ getNextInspection(P) = Undefined
           ELSE LET chosen == projectReminders(P)[1]
                IN  /\ chosen.id \in Candidates(P)
                    /\ reminders[chosen.id] = chosen
                    /\ \A id \in Candidates(P) :
                           chosen.scheduledFor <= reminders[id].scheduledFor
                    /\ getNextInspection(P)
                           = inspectionLabel(chosen.scheduledFor, now)
    /\ \A i \in 1..Len(getProjects) :
           getProjects[i].nextInspection
               = getNextInspection(getProjects[i].id)

\* A project has two reminders that are not completed, the one created later
\* scheduled earlier, and that one is chosen; another project has none.
C9_Witness ==
    /\ \E P \in DOMAIN projects :
           /\ Cardinality(Candidates(P)) = 2
           /\ projectReminders(P)[1].id > 1
           /\ projectReminders(P)[1].scheduledFor
                  < projectReminders(P)[2].scheduledFor
    /\ \E Q \in DOMAIN projects : getNextInspection(Q) = Undefined

\* C10 -- Overdue rule: whenever the selected reminder's scheduledFor is
\* earlier than now, by 1 ms or more, the label is "Overdue"; and the label
\* is "Overdue" only when scheduledFor is earlier than now.
C10_OverdueRule ==
    \A P \in DOMAIN projects :
        Candidates(P) # {} =>
            LET scheduledFor == projectReminders(P)[1].scheduledFor
            IN  /\ scheduledFor < now => getNextInspection(P) = "Overdue"
                /\ getNextInspection(P) = "Overdue" => scheduledFor < now

\* The calendar day an instant falls on, counting days from the midnight the
\* store is taken to be constructed at.
calendarDay(t) == t \div DayMs

\* C11 -- Today/Tomorrow rule: when the selected reminder is scheduled exactly
\* at now, or later on the calendar day of now, the label is "Today"; when it
\* is scheduled on the next calendar day the label is "Tomorrow"; and a label
\* "N days" is produced only for N > 1.
C11_TodayTomorrowRule ==
    \A P \in DOMAIN projects :
        Candidates(P) # {} =>
            LET scheduledFor == projectReminders(P)[1].scheduledFor
                label == getNextInspection(P)
            IN  /\ scheduledFor = now => label = "Today"
                /\ ( /\ scheduledFor > now
                     /\ calendarDay(scheduledFor) = calendarDay(now) )
                   => label = "Today"
                /\ calendarDay(scheduledFor) = calendarDay(now) + 1
                   => label = "Tomorrow"
                /\ label \notin {"Today", "Tomorrow", "Overdue"}
                   => /\ Ceil(scheduledFor - now, DayMs) > 1
                      /\ label = ToString(Ceil(scheduledFor - now, DayMs))
                                     \o " days"

\* C12 -- getActiveReminders returns one row for each stored reminder that is
\* not completed (completed false, or left out on creation) and none for a
\* completed one; each row carries the stored reminder's fields; the rows are
\* in non-decreasing order of scheduledFor.
C12_ActiveReminders ==
    LET rows == getActiveReminders
        pending == {id \in DOMAIN reminders :
                       ~Truthy(reminders[id], "completed")}
    IN  /\ {rows[i].id : i \in 1..Len(rows)} = pending
        /\ Len(rows) = Cardinality(pending)
        /\ \A i \in 1..Len(rows) :
               \A k \in DOMAIN reminders[rows[i].id] :
                   rows[i][k] = reminders[rows[i].id][k]
        /\ \A i \in 1..(Len(rows) - 1) :
               rows[i].scheduledFor <= rows[i + 1].scheduledFor

\* Two reminders are pending, the one stored later scheduled earlier, and a
\* third reminder is completed.
C12_Witness ==
    /\ Len(getActiveReminders) = 2
    /\ getActiveReminders[1].id > getActiveReminders[2].id
    /\ getActiveReminders[1].scheduledFor < getActiveReminders[2].scheduledFor
    /\ \E id \in DOMAIN reminders : Truthy(reminders[id], "completed")

\* The instant t falls in month `month` (0 = January .. 11 = December) of
\* year `year`, for the two months the model's instants lie in.
InMonth(t, month, year) ==
    \/ month = 11 /\ year = 2024 /\ t < DayMs
    \/ month = 0 /\ year = 2025 /\ t >= DayMs

\* C13 -- getCalendarEvents(month, year): with both arguments given (month as
\* the zero-based index Date.getMonth returns) the rows are exactly the stored
\* events whose date falls in that month of that year; with either one
\* omitted the rows are all stored events. Each row carries the stored
\* event's fields.
C13_CalendarEventsByMonth ==
    \A args \in CalendarQueries :
        LET rows == getCalendarEvents(args)
            matching ==
                IF Has(args, "month") /\ Has(args, "year")
                THEN {id \in DOMAIN calendarEvents :
                         InMonth(calendarEvents[id].date, args.month,
                                 args.year)}
                ELSE DOMAIN calendarEvents
        IN  /\ {rows[i].id : i \in 1..Len(rows)} = matching
            /\ Len(rows) = Cardinality(matching)
            /\ \A i \in 1..Len(rows) :
                   \A k \in DOMAIN calendarEvents[rows[i].id] :
                       rows[i][k] = calendarEvents[rows[i].id][k]

\* An event of December 2024 and an event of January 2025 are stored; the
\* query for January 2025 returns the one, a query without year both.
C13_Witness ==
    /\ Cardinality(DOMAIN calendarEvents) = 2
    /\ Len(getCalendarEvents([month |-> 0, year |-> 2025])) = 1
    /\ Len(getCalendarEvents([month |-> 11, year |-> 2024])) = 1
    /\ Len(getCalendarEvents([month |-> 0])) = 2

\* The rows of a joined read carry the placeholder wherever the reference
\* dangles.
Placeholders(rows) ==
    \A i \in 1..Len(rows) :
        /\ rows[i].projectId \notin DOMAIN projects
               => rows[i].projectName = "Unknown Project"
        /\ ( /\ Has(rows[i], "materialTestId")
             /\ rows[i].materialTestId \notin DOMAIN materialTests )
               => rows[i].testName = "Unknown Test"

\* C14 -- Read-side joins are total: in every reachable state, dangling
\* references included, getTestResults returns a row for every stored test
\* result, getActiveReminders for every stored reminder that is not
\* completed and getCalendarEvents for every stored event (matching the
\* month and year when both are given); a row whose projectId names no stored
\* project has projectName "Unknown Project", and a test result whose
\* materialTestId names no stored test has testName "Unknown Test".
C14_JoinsTotal ==
    /\ {getTestResults[i].id : i \in 1..Len(getTestResults)}
           = DOMAIN testResults
    /\ Len(getTestResults) = Cardinality(DOMAIN testResults)
    /\ Placeholders(getTestResults)
    /\ {getActiveReminders[i].id : i \in 1..Len(getActiveReminders)}
           = {id \in DOMAIN reminders : ~Truthy(reminders[id], "completed")}
    /\ Placeholders(getActiveReminders)
    /\ \A args \in CalendarQueries :
           /\ {getCalendarEvents(args)[i].id :
                  i \in 1..Len(getCalendarEvents(args))}
                  = {id \in DOMAIN calendarEvents :
                        (Has(args, "month") /\ Has(args, "year"))
                            => InMonth(calendarEvents[id].date, args.month,
                                       args.year)}
           /\ Placeholders(getCalendarEvents(args))

\* The project of the seeded reminder was deleted; a test result that names
\* neither a stored project nor a stored test, and an event of the deleted
\* project, are stored: each read returns a row with the placeholder.
C14_Witness ==
    /\ 1 \notin DOMAIN projects
    /\ Len(getActiveReminders) = 1
    /\ getActiveReminders[1].projectName = "Unknown Project"
    /\ Len(getTestResults) = 1
    /\ getTestResults[1].projectName = "Unknown Project"
    /\ getTestResults[1].testName = "Unknown Test"
    /\ Len(getCalendarEvents(EmptyObj)) = 1
    /\ getCalendarEvents(EmptyObj)[1].projectName = "Unknown Project"

\* C15 -- Update endpoints: for each of Photo, Document, MaterialTest,
\* Reminder and CalendarEvent, an update request on a stored id succeeds
\* (200), and an update request on an id that is not stored reports NotFound
\* (404), distinct from the validation error (400).
C15_UpdateEndpoints ==
    /\ \A id \in DOMAIN photos : patchPhoto(id).status = 200
    /\ \A id \in DOMAIN documents : patchDocument(id).status = 200
    /\ \A id \in DOMAIN materialTests : patchMaterialTest(id).status = 200
    /\ \A id \in DOMAIN reminders : patchReminder(id).status = 200
    /\ \A id \in DOMAIN calendarEvents : patchCalendarEvent(id).status = 200
    /\ patchPhoto(NoSuchId).status = 404
    /\ patchDocument(NoSuchId).status = 404
    /\ patchMaterialTest(NoSuchId).status = 404
    /\ patchReminder(NoSuchId).status = 404
    /\ patchCalendarEvent(NoSuchId).status = 404

\* C16 -- Delete endpoints: for each of Project, Photo, Document,
\* MaterialTest, Reminder and CalendarEvent, a delete request on a stored id
\* reports success (204) and removes the entity, so that a second delete of
\* the id finds nothing; a delete request on an id that is not stored reports
\* NotFound (404).
C16_DeleteEndpoints ==
    /\ \A id \in DOMAIN projects :
           /\ delProject(id).status = 204
           /\ id \notin DOMAIN delProject(id).store.projects
           /\ ~deleteProject(delProject(id).store.projects, id).ret
    /\ \A id \in DOMAIN photos :
           /\ delPhoto(id).status = 204
           /\ id \notin DOMAIN delPhoto(id).store.photos
           /\ ~deletePhoto(delPhoto(id).store.photos, id).ret
    /\ \A id \in DOMAIN documents :
           /\ delDocument(id).status = 204
           /\ id \notin DOMAIN delDocument(id).store.documents
           /\ ~deleteDocument(delDocument(id).store.documents, id).ret
    /\ \A id \in DOMAIN materialTests :
           /\ delMaterialTest(id).status = 204
           /\ id \notin DOMAIN delMaterialTest(id).store.materialTests
    /\ \A id \in DOMAIN reminders :
           /\ delReminder(id).status = 204
           /\ id \notin DOMAIN delReminder(id).store.reminders
    /\ \A id \in DOMAIN calendarEvents :
           /\ delCalendarEvent(id).status = 204
           /\ id \notin DOMAIN delCalendarEvent(id).store.calendarEvents
    /\ delProject(NoSuchId).status = 404
    /\ delPhoto(NoSuchId).status = 404
    /\ delDocument(NoSuchId).status = 404
    /\ delMaterialTest(NoSuchId).status = 404
    /\ delReminder(NoSuchId).status = 404
    /\ delCalendarEvent(NoSuchId).status = 404

\* The outcome of every write request the routes accept, in the current
\* state: each create, update and delete route over its inputs.
WriteOutcomes ==
    {postProject(body) : body \in ProjectBodies \cup {EmptyObj}}
    \cup {patchProject(id, body) :
             id \in ProjectIds \cup DOMAIN projects, body \in ProjectUpdates}
    \cup {delProject(id) : id \in ProjectIds \cup DOMAIN projects}
    \cup {postPhoto(p, diskStorage(file), form) :
             p \in DepProjectIds, file \in Files, form \in UploadForms}
    \cup {patchPhoto(id) : id \in UuidIds}
    \cup {delPhoto(id) : id \in UuidIds}
    \cup {postDocument(p, diskStorage(file), form) :
             p \in DepProjectIds, file \in Files, form \in UploadForms}
    \cup {patchDocument(id) : id \in UuidIds}
    \cup {delDocument(id) : id \in UuidIds}
    \cup {postMaterialTest(body) : body \in MaterialTestBodies}
    \cup {patchMaterialTest(id) : id \in MaterialTestIds \cup UuidIds}
    \cup {delMaterialTest(id) : id \in MaterialTestIds \cup UuidIds}
    \cup {postReminder(body) : body \in ReminderBodies}
    \cup {completeReminder(id) : id \in ReminderIds}
    \cup {patchReminder(id) : id \in ReminderIds}
    \cup {delReminder(id) : id \in ReminderIds}
    \cup {postCalendarEvent(body) : body \in CalendarEventBodies}
    \cup {patchCalendarEvent(id) : id \in UuidIds}
    \cup {delCalendarEvent(id) : id \in UuidIds}

\* C17 -- A failed write never mutates visible state: whenever a create,
\* update or delete request is answered with an error status (400, 404, 500),
\* the seven collections it leaves are the seven collections it found, and no
\* id was drawn; a project create whose body lacks a required field is
\* answered 400 and leaves the projects as they were.
C17_FailedWriteFrame ==
    /\ \A o \in WriteOutcomes :
           o.status >= 400 => (o.store = Store /\ o.uuid = 0)
    /\ \A body \in {[type |-> "building"], [name |-> "Nameless"], EmptyObj} :
           /\ postProject(body).status = 400
           /\ postProject(body).store.projects = projects

\* Entities were created, and in the state they left requests fail with a
\* validation error, with NotFound and with a server error.
C17_Witness ==
    /\ uuids = MaxUuid
    /\ Cardinality(DOMAIN projects) > NumSeed
    /\ \E o \in WriteOutcomes : o.status = 400
    /\ \E o \in WriteOutcomes : o.status = 404
    /\ \E o \in WriteOutcomes : o.status = 500
    /\ postProject([type |-> "building"]).status = 400

\* C18 -- Enumerated fields hold only enum values: a create or update whose
\* Project.status, Project.type, MaterialTest.category or Reminder.type is
\* outside its enumeration is rejected as a validation error (400), and no
\* stored entity carries a value outside its enumeration.
C18_EnumValidation ==
    /\ postProject([name |-> "Delta", type |-> "spaceship"]).status = 400
    /\ postProject([name |-> "Delta", type |-> "building",
                    status |-> "archived"]).status = 400
    /\ \A id \in DOMAIN projects :
           /\ patchProject(id, [status |-> "archived"]).status = 400
           /\ patchProject(id, [type |-> "spaceship"]).status = 400
    /\ postMaterialTest([name |-> "Tensile", category |-> "steel",
                         specification |-> "Min 60 ksi"]).status = 400
    /\ postReminder([projectId |-> 1, title |-> "Call", type |-> "phone",
                     scheduledFor |-> now]).status = 400
    /\ \A id \in DOMAIN projects :
           /\ Has(projects[id], "status")
                  => projects[id].status \in {"active", "review", "complete"}
           /\ projects[id].type
                  \in {"building", "infrastructure", "residential"}
    /\ \A id \in DOMAIN materialTests :
           materialTests[id].category \in {"concrete", "soil", "asphalt"}
    /\ \A id \in DOMAIN reminders :
           reminders[id].type \in {"599", "sw3p", "material_test"}

\* Every entity of collection m is stored under its own id.
KeyIsId(m) == \A k \in DOMAIN m : m[k].id = k

\* Every collection of store st holds each entity under its own id.
KeysAreIds(st) ==
    /\ KeyIsId(st.projects) /\ KeyIsId(st.photos) /\ KeyIsId(st.documents)
    /\ KeyIsId(st.materialTests) /\ KeyIsId(st.testResults)
    /\ KeyIsId(st.reminders) /\ KeyIsId(st.calendarEvents)

\* C19 -- Identity: in every reachable state, and in the state every write
\* request leaves, each entity is stored under its own id (so no two entities
\* of a type share an id); a create answers with an id that was stored
\* nowhere before, also when the caller's input carries an id of its own;
\* and an update request whose body carries an id leaves the project's id as
\* it was.
C19_Identity ==
    /\ KeysAreIds(Store)
    /\ \A o \in WriteOutcomes :
           /\ KeysAreIds(o.store)
           /\ o.status = 201 =>
                  /\ o.ret \notin DOMAIN projects \cup DOMAIN photos
                         \cup DOMAIN documents \cup DOMAIN materialTests
                         \cup DOMAIN testResults \cup DOMAIN reminders
                         \cup DOMAIN calendarEvents
                  /\ o.ret = randomUUID
    /\ LET input == [id |-> 1, name |-> "Hijack", type |-> "building"]
           made == createProject(projects, input)
           o == postProject(input)
       IN  /\ made.ret.id = randomUUID
           /\ made.ret.id \notin DOMAIN projects
           /\ \A k \in DOMAIN projects : made.projects[k] = projects[k]
           /\ o.status = 201
           /\ o.ret = randomUUID
           /\ \A k \in DOMAIN projects : o.store.projects[k] = projects[k]
    /\ \A id \in DOMAIN projects :
           LET o == patchProject(id, [id |-> NoSuchId, description |-> "x"])
           IN  /\ o.status = 200
               /\ DOMAIN o.store.projects = DOMAIN projects
               /\ o.store.projects[id].id = id

\* Entities of two types were created beside the seeded ones and the seeded
\* project was updated.
C19_Witness ==
    /\ Created(projects) # {}
    /\ Created(reminders) # {}
    /\ 1 \in DOMAIN projects
    /\ projects[1].description = "x"

\* C20 -- Project status default: a project created with the status field
\* omitted is stored and returned with status = "active" and is counted in
\* getProjectStats().activeProjects.
C20_StatusDefault ==
    \A body \in ProjectBodies :
        LET o == postProject(body)
            stored == o.store.projects[o.ret]
            active(ps) == Cardinality({id \in DOMAIN ps :
                              /\ Has(ps[id], "status")
                              /\ ps[id].status = "active"})
        IN  (~Has(body, "status") /\ o.status = 201) =>
                /\ Has(stored, "status")
                /\ stored.status = "active"
                /\ active(o.store.projects) = active(projects) + 1

\* C21 -- Reminder completed default: every reminder created through
\* POST /api/reminders is stored and returned with completed = false (a
\* boolean, present, not true), whatever the payload contains.
C21_CompletedDefault ==
    \A body \in ReminderBodies :
        LET o == postReminder(body)
            stored == o.store.reminders[o.ret]
        IN  o.status = 201 =>
                /\ Has(stored, "completed")
                /\ stored.completed = FALSE

\* The names of the files whose write has finished.
WrittenBlobs ==
    {q.file.filename : q \in {u \in Uploads : u.phase = "done" /\ u.file # NoFile}}

\* C22 -- Blob before record: every Photo and Document record an upload
\* added names a file whose write had finished; an upload without a file,
\* or whose write did not finish, is not answered 201, and there are exactly
\* as many added records as uploads answered 201.
C22_BlobBeforeRecord ==
    /\ \A id \in Created(photos) : photos[id].filename \in WrittenBlobs
    /\ \A id \in Created(documents) : documents[id].filename \in WrittenBlobs
    /\ \A r \in responses :
           (r.req.file = NoFile \/ r.req.phase # "done") => r.status # 201
    /\ Cardinality(Created(photos)) + Cardinality(Created(documents))
           = Cardinality({r \in responses : r.status = 201})

\* One upload was stored and recorded, one failed while writing and one
\* carried no file.
C22_Witness ==
    /\ Created(photos) # {}
    /\ \E r \in responses : r.status = 201
    /\ \E r \in responses : r.status = 500 /\ r.req.phase = "writing"
    /\ \E r \in responses : r.status = 400 /\ r.req.file = NoFile

\* The fields the update requests answered so far have set on project i.
Patched(i) ==
    {f \in {"description", "location"} :
        \E r \in responses :
            /\ r.req.id = i
            /\ r.status = 200
            /\ f \in DOMAIN r.req.body}

\* C23 -- No lost updates: of the update requests on one project that
\* overlap in time, every one that was answered has its field in the stored
\* project, so after both the project carries both new values; a field no
\* answered request on this project has set is as it was, whatever was done
\* to the other project.
C23_NoLostUpdates ==
    \A i \in PatchedProjects :
        /\ "description" \in Patched(i) => projects[i].description = "x"
        /\ "location" \in Patched(i) => projects[i].location = "y"
        /\ \A f \in DOMAIN seedProjects[i] \ (Patched(i) \cup {"updatedAt"}) :
               projects[i][f] = seedProjects[i][f]
        /\ Patched(i) = {} => projects[i] = seedProjects[i]
        /\ DOMAIN projects[i] = DOMAIN seedProjects[i]

\* Both updates of project 1 were answered, and one of project 2, while the
\* other update of project 2 is in flight.
C23_Witness ==
    /\ Patched(1) = {"description", "location"}
    /\ Cardinality(Patched(2)) = 1
    /\ \E req \in inflight : req.id = 2

\* Every entity of collection m was updated no earlier than it was created.
UpdatedAfterCreated(m) == \A id \in DOMAIN m : m[id].updatedAt >= m[id].createdAt

\* Every entity of collection m that is also in collection m2 was created at
\* the same time in both.
SameCreatedAt(m, m2) ==
    \A id \in DOMAIN m \cap DOMAIN m2 : m2[id].createdAt = m[id].createdAt

\* C24 -- Timestamp order: every Project and MaterialTest has
\* updatedAt >= createdAt, in every reachable state and in the state every
\* write request leaves; no write request changes the createdAt of a Project
\* or MaterialTest that exists before and after it; and every update
\* request answered 200 leaves the project with updatedAt = the clock value
\* at the time of the update, also when its body carries timestamps of its
\* own.
C24_TimestampOrder ==
    /\ UpdatedAfterCreated(projects)
    /\ UpdatedAfterCreated(materialTests)
    /\ \A o \in WriteOutcomes :
           /\ UpdatedAfterCreated(o.store.projects)
           /\ UpdatedAfterCreated(o.store.materialTests)
           /\ SameCreatedAt(projects, o.store.projects)
           /\ SameCreatedAt(materialTests, o.store.materialTests)
    /\ \A id \in DOMAIN projects :
           \A body \in ProjectUpdates
                   \cup {[description |-> "x", createdAt |-> now, updatedAt |-> 0]} :
               LET o == patchProject(id, body)
               IN  /\ o.status = 200
                   /\ o.store.projects[id].updatedAt = now
                   /\ o.store.projects[id].createdAt = projects[id].createdAt

\* The seeded project was updated after the clock had moved on, and a
\* material test was created.
C24_Witness ==
    /\ 1 \in DOMAIN projects
    /\ projects[1].updatedAt > 1
    /\ projects[1].description = "x"
    /\ Created(materialTests) # {}

\* The filenames of the stored Photo and Document records, one per record.
StoredNames ==
    [i \in 1..(Len(Values(photos)) + Len(Values(documents))) |->
        IF i <= Len(Values(photos)) THEN Values(photos)[i].filename
        ELSE Values(documents)[i - Len(Values(photos))].filename]

\* C25 -- Upload name uniqueness: no two stored Photo or Document records
\* share a filename, also when their uploads carried the same original name
\* and arrived within the same millisecond.
C25_UploadNameUnique ==
    \A i, j \in DOMAIN StoredNames : i # j => StoredNames[i] # StoredNames[j]

\* Photo p has both coordinates or neither.
JointCoordinates(p) == (p.latitude = Null) <=> (p.longitude = Null)

\* C26 -- Photo coordinates are jointly present or absent: every stored
\* photo has both latitude and longitude or neither, and so has the photo an
\* upload stores, whichever of the two coordinate fields the upload supplies.
C26_JointCoordinates ==
    /\ \A id \in DOMAIN photos : JointCoordinates(photos[id])
    /\ \A form \in CoordForms :
           LET o == postPhoto(1, RaceFile, form)
           IN  o.status = 201 => JointCoordinates(o.store.photos[o.ret])

\* The number of reminders of collection rs that are not completed.
PendingIn(rs) == Cardinality({id \in DOMAIN rs : ~Truthy(rs[id], "completed")})

\* C27 -- Cross-view agreement on pending reminders: in every reachable
\* state getProjectStats().pendingInspections and the number of rows of
\* getActiveReminders() both equal the number of stored reminders that are
\* not completed; and markReminderComplete on a reminder that is not
\* completed succeeds, leaves one such reminder fewer (so, in the state the
\* completion leads to, both views are lower by exactly one) and changes no
\* other reminder.
C27_PendingAgreement ==
    /\ getProjectStats.pendingInspections = Len(getActiveReminders)
    /\ getProjectStats.pendingInspections = PendingIn(reminders)
    /\ \A id \in DOMAIN reminders :
           ~Truthy(reminders[id], "completed") =>
               LET r == markReminderComplete(reminders, id)
                   o == completeReminder(id)
               IN  /\ r.ret
                   /\ o.status = 204
                   /\ o.store.reminders = r.reminders
                   /\ PendingIn(r.reminders) = PendingIn(reminders) - 1
                   /\ DOMAIN r.reminders = DOMAIN reminders
                   /\ \A other \in DOMAIN reminders \ {id} :
                          r.reminders[other] = reminders[other]

\* The seeded reminder was completed while two reminders created later are
\* pending in both views.
C27_Witness ==
    /\ 1 \in DOMAIN reminders
    /\ Truthy(reminders[1], "completed")
    /\ getProjectStats.pendingInspections = 2
    /\ Len(getActiveReminders) = 2

\* The sum of field k over the rows of sequence s.
RECURSIVE SumOf(_, _)
SumOf(s, k) == IF s = << >> THEN 0 ELSE Head(s)[k] + SumOf(Tail(s), k)

\* C28 -- Per-project counts add up to the totals: the sum of photoCount
\* over the projects getProjects returns equals getProjectStats().photosCount
\* and the sum of documentCount equals documentsCount.
C28_CountsAddUp ==
    /\ SumOf(getProjects, "photoCount") = getProjectStats.photosCount
    /\ SumOf(getProjects, "documentCount") = getProjectStats.documentsCount

\* Each row's projectName is the name of the stored project it references,
\* and is the placeholder only when there is no such project; likewise
\* testName, in the rows that reference a material test.
FaithfulNames(rows) ==
    \A i \in 1..Len(rows) :
        /\ rows[i].projectId \in DOMAIN projects
               => rows[i].projectName = projects[rows[i].projectId].name
        /\ rows[i].projectName = "Unknown Project"
               => rows[i].projectId \notin DOMAIN projects
        /\ Has(rows[i], "materialTestId") =>
               /\ rows[i].materialTestId \in DOMAIN materialTests
                      => rows[i].testName
                             = materialTests[rows[i].materialTestId].name
               /\ rows[i].testName = "Unknown Test"
                      => rows[i].materialTestId \notin DOMAIN materialTests

\* C29 -- Joined names are faithful: in the rows of getActiveReminders,
\* getCalendarEvents and getTestResults, projectName is the stored name of
\* the referenced project whenever that project exists (whatever name it was
\* created under, the empty string included) and "Unknown Project" only when
\* it does not exist; likewise testName and "Unknown Test".
C29_JoinedNamesFaithful ==
    /\ FaithfulNames(getActiveReminders)
    /\ FaithfulNames(getCalendarEvents(EmptyObj))
    /\ FaithfulNames(getTestResults)

\* rows are exactly the entities of collection m that reference project P,
\* each once and as stored, in non-increasing order of field k.
ListingOf(rows, m, P, k) ==
    /\ {rows[i].id : i \in 1..Len(rows)} = ReferencesProject(m, P)
    /\ Len(rows) = Cardinality(ReferencesProject(m, P))
    /\ \A i \in 1..Len(rows) :
           /\ rows[i] = m[rows[i].id]
           /\ rows[i].projectId = P
    /\ \A i \in 1..(Len(rows) - 1) : rows[i][k] >= rows[i + 1][k]

\* C30 -- Per-project listings: for every project id P (of a stored
\* project, of a deleted one or of none), getProjectPhotos(P) returns exactly
\* the stored photos with projectId = P, newest takenAt first, and
\* getProjectDocuments(P) exactly the stored documents with projectId = P,
\* newest uploadedAt first; no row belongs to another project.
C30_ProjectListings ==
    \A P \in DepProjectIds \cup DOMAIN projects :
        /\ ListingOf(getProjectPhotos(P), photos, P, "takenAt")
        /\ ListingOf(getProjectDocuments(P), documents, P, "uploadedAt")

\* Project 1 has two photos taken at different times, listed newest first,
\* and the other projects have none.
C30_Witness ==
    /\ Len(getProjectPhotos(1)) = 2
    /\ getProjectPhotos(1)[1].takenAt > getProjectPhotos(1)[2].takenAt
    /\ getProjectPhotos(1)[1].id > getProjectPhotos(1)[2].id
    /\ Len(getProjectPhotos(2)) = 0
====
